---- MODULE Spec2Model ----
(***************************************************************************)
(* A model of the website health check of src/main.js: the startup gate    *)
(* on the environment, the periodic probe cycle checkWebsite with its      *)
(* retry-by-recursion, the process-wide lastStatus cell, and the           *)
(* notification fan-out sendNotification over Telegram, Slack and SMS.     *)
(*                                                                         *)
(* Every await of the source is a point where the event loop may run       *)
(* something else, so every await splits a function into steps: the step   *)
(* that issues the request and the step that resumes on its result.        *)
(***************************************************************************)
EXTENDS Integers, Sequences, FiniteSets, TLC

\* ---------------------------------------------------------------- bounds
\* Timer firings explored in one run.
MaxCycles == 3
\* Largest number of entries of TELEGRAM_CHAT_IDS explored.
MaxChats == 2
\* Invocations of checkWebsite that may be in flight at once.
MaxInFlight == 2

\* ------------------------------------------------------ program constants
MAX_RETRIES == 3

\* lastStatus holds a number (an HTTP status) or the string "DOWN"; the
\* string is modelled by an integer that is no HTTP status, so that !== of
\* the source stays a comparison of two values of one domain.
DOWN == -1

\* The statuses a probed server answers with: 200, another 2xx status, and
\* two 5xx statuses.
Codes == {200, 204, 500, 503}

\* axios is created without a validateStatus option, so its default decides
\* whether a received response resolves the request or rejects it.
validateStatus(status) == status >= 200 /\ status < 300

Slots == 1..MaxInFlight
\* Who awaits a dispatch: 0 is the top-level call at startup, c the
\* invocation of checkWebsite running in slot c.
Owners == 0..MaxInFlight

VARIABLES
    env,         \* the required environment, as read at lines 6-11
    proc,        \* "boot", "running", "exited" (process.exit), "crashed"
    exitCode,    \* the exit status once proc is "exited" or "crashed"
    timer,       \* TRUE once setInterval has installed the timer
    lastStatus,  \* the cell of line 66
    fired,       \* how many times the timer has fired
    cyc,         \* per slot, the invocation of checkWebsite running in it
    disp,        \* per owner, the sendNotification call it is awaiting
    unhandled,   \* TRUE once a promise has rejected with no handler attached
    alerted,     \* history: the statuses of the last two alerts of checkWebsite
    scen,        \* history: progress of the run along FlapCodes
    fresh        \* history: the failure statuses alerted since lastStatus changed

vars == <<env, proc, exitCode, timer, lastStatus, fired, cyc, disp,
          unhandled, alerted, scen, fresh>>

\* ------------------------------------------------------------- messages
NoMsg == [kind |-> "none", code |-> 0, err |-> ""]
StartMsg == [kind |-> "starting", code |-> 0, err |-> ""]
OnlineMsg == [kind |-> "online", code |-> 0, err |-> ""]
DownMsg(status) == [kind |-> "down", code |-> status, err |-> ""]
\* error.message of the caught error: a transport error, axios' "Request
\* failed with status code N", or the TypeError of a failed dispatch.
ErrorMsg(e) == [kind |-> "error", code |-> e.code, err |-> e.err]

TransportError == [err |-> "transport", code |-> 0]
StatusError(status) == [err |-> "status", code |-> status]
TypeError == [err |-> "TypeError", code |-> 0]

\* -------------------------------------------------------- the environment
\* The check of lines 45-50 without its last operand.
RequiredEnvWithoutWebhook ==
    /\ env.token
    /\ env.chats # 0
    /\ env.url

\* Lines 45-50: the condition under which the process goes on.
RequiredEnvPresent ==
    /\ env.token
    /\ env.chats # 0
    /\ env.url
    /\ env.webhook

\* ------------------------------------------------------------- dispatch
IdleSend == [post |-> "idle", text |-> NoMsg]
NoDisp == [on |-> FALSE, msg |-> NoMsg,
           tg |-> [posts |-> <<>>, fn |-> "idle", text |-> NoMsg],
           slack |-> IdleSend, sms |-> IdleSend]

\* Up to its first await: one post per chat id, all issued by map.
sendTelegramMessage(message) ==
    [posts |-> [i \in 1..env.chats |-> "pending"], fn |-> "pending",
     text |-> message]

sendSlackMessage(message) == [post |-> "pending", text |-> message]

\* The post is issued and not awaited: the function itself has returned.
sendSmsMessage(message) == [post |-> "pending", text |-> message]

\* The dispatch with the sends awaited one after the other: Telegram only
\* has been called when the function first yields.
sendNotificationInTurn(message) ==
    [on |-> TRUE, msg |-> message,
     tg |-> sendTelegramMessage(message),
     slack |-> IdleSend,
     sms |-> IdleSend]

\* The three calls are the elements of one array literal: all three run
\* (to their first await) before Promise.all is called.
sendNotification(message) ==
    [on |-> TRUE, msg |-> message,
     tg |-> sendTelegramMessage(message),
     slack |-> sendSlackMessage(message),
     sms |-> sendSmsMessage(message)]

\* The state of the promise sendNotification returned: Promise.all rejects
\* with the first rejection and resolves once all three have resolved.
\* sendSlackMessage resolves on either outcome of its post; sendSmsMessage
\* has resolved already.
SendState(d) ==
    IF ~d.on THEN "none"
    ELSE IF d.tg.fn = "threw" THEN "rejected"
    ELSE IF d.tg.fn \in {"sent", "caught"} /\ d.slack.post \in {"ok", "failed"}
         THEN "resolved"
    ELSE "pending"

\* One Telegram post settles. The inner Promise.all resolves when every post
\* has, and rejects with the first failed post; the catch block then reads
\* error.response.data, which throws when the error carries no response.
TgSettle(t, i, outcome) ==
    LET posts == [t.posts EXCEPT ![i] = IF outcome = "ok" THEN "ok" ELSE "failed"]
        fn == IF t.fn # "pending" THEN t.fn
              ELSE IF outcome = "ok"
                   THEN IF \A j \in 1..Len(posts) : posts[j] = "ok"
                        THEN "sent" ELSE "pending"
              ELSE IF outcome = "errResp" THEN "caught"
              ELSE "threw"
    IN [t EXCEPT !.posts = posts, !.fn = fn]

\* Dispatch d stops being awaited. The requests it leaves outstanding go on
\* by themselves, and of their outcomes only one is ever seen again: the
\* rejection of the SMS post, which has no handler. smsOk is that outcome.
Abandon(d, smsOk) == d.sms.post = "pending" /\ ~smsOk

\* ---------------------------------------------------------- checkWebsite
\* One invocation of checkWebsite, the recursive calls of line 95 included.
\* pc: "get" awaits http.get, "notify" awaits the sendNotification of line
\* 78 or 84, "notifyErr" that of line 99, "done" has returned, "rejected"
\* has thrown out of the catch block. pend is the value the assignment
\* after the await will store. The other fields are history: start is
\* lastStatus when the timer fired, out the answer to the latest request that
\* has settled (0: none, a transport error), answered whether any request of
\* the invocation got an answer, sends the calls of sendNotification, cls
\* the value this invocation assigned to lastStatus.
IdleCyc == [pc |-> "idle", retries |-> 0, pend |-> 0, start |-> 0,
            out |-> <<>>, answered |-> FALSE, sends |-> 0, cls |-> <<>>]

InFlight(c) == cyc[c].pc \in {"get", "notify", "notifyErr"}

\* Lines 71-87: the answer resolved the request.
TryBody(cy, status, last) ==
    IF status = 200
    THEN IF last # 200
         THEN [c |-> [cy EXCEPT !.pc = "notify", !.pend = 200,
                                !.sends = @ + 1],
               send |-> OnlineMsg, last |-> last]
         ELSE [c |-> [cy EXCEPT !.pc = "done", !.cls = <<200>>],
               send |-> NoMsg, last |-> 200]
    ELSE IF last # status
         THEN [c |-> [cy EXCEPT !.pc = "notify", !.pend = status,
                                !.sends = @ + 1],
               send |-> DownMsg(status), last |-> last]
         ELSE [c |-> [cy EXCEPT !.pc = "done", !.cls = <<status>>],
               send |-> NoMsg, last |-> status]

\* Lines 88-104: anything thrown inside the try block lands here; the
\* recursive call issues the next http.get at once.
CatchBody(cy, e, last) ==
    IF cy.retries < MAX_RETRIES
    THEN [c |-> [cy EXCEPT !.pc = "get", !.retries = @ + 1, !.pend = 0],
          send |-> NoMsg, last |-> last]
    ELSE IF last # DOWN
         THEN [c |-> [cy EXCEPT !.pc = "notifyErr", !.pend = DOWN,
                                !.sends = @ + 1],
               send |-> ErrorMsg(e), last |-> last]
         ELSE [c |-> [cy EXCEPT !.pc = "done", !.pend = 0, !.cls = <<DOWN>>],
               send |-> NoMsg, last |-> DOWN]

\* Lines 80, 86 and 103: the assignment that follows the awaited dispatch.
AfterNotify(cy) ==
    [c |-> [cy EXCEPT !.pc = "done", !.pend = 0, !.cls = <<cy.pend>>],
     send |-> NoMsg, last |-> cy.pend]

\* ------------------------------------------------- history of the run
\* The answers of the flap scenario, one per cycle.
FlapCodes == <<500, 503, 500>>
\* The statuses alerted so far, the last two of them kept.
LastTwo(a, status) ==
    IF Len(a) < 2 THEN Append(a, status) ELSE <<a[2], status>>

\* The failure statuses alerted since lastStatus last changed: an alert for
\* one is added, a change of lastStatus empties the set.
FreshStep(f, r, last) ==
    IF r.last # last THEN {}
    ELSE IF r.send # NoMsg /\ r.c.pend # 200 THEN f \cup {r.c.pend}
    ELSE f

ScenInit == [on |-> TRUE, n |-> 0, alerts |-> 0]
ScenOff == [on |-> FALSE, n |-> 0, alerts |-> 0]
ScenLive(s) == s.on /\ s.n < Len(FlapCodes)
\* An answer (0: the request threw) that is not the scenario's ends it.
ScenProbe(s, out) ==
    IF ScenLive(s) /\ out # FlapCodes[s.n + 1] THEN ScenOff ELSE s
\* A step of a cycle: an alert is counted, a finished cycle too.
ScenStep(s, r) ==
    IF ~ScenLive(s) THEN s
    ELSE [s EXCEPT !.alerts = IF r.send # NoMsg THEN @ + 1 ELSE @,
                   !.n = IF r.c.pc = "done" THEN @ + 1 ELSE @]

\* ---------------------------------------------------------------- Init
Init ==
    /\ env \in [token : BOOLEAN, chats : 0..MaxChats, url : BOOLEAN,
                webhook : BOOLEAN]
    /\ proc = "boot"
    /\ exitCode = 0
    /\ timer = FALSE
    /\ lastStatus = 200
    /\ fired = 0
    /\ cyc = [c \in Slots |-> IdleCyc]
    /\ disp = [o \in Owners |-> NoDisp]
    /\ unhandled = FALSE
    /\ alerted = <<>>
    /\ scen = ScenInit
    /\ fresh = {}

\* -------------------------------------------------------------- startup
\* Lines 45-53.
StartupExit ==
    /\ proc = "boot"
    /\ ~RequiredEnvPresent
    /\ proc' = "exited"
    /\ exitCode' = 1
    /\ UNCHANGED <<env, timer, lastStatus, fired, cyc, disp, unhandled, alerted, scen, fresh>>

\* Lines 55-176: the timer is installed and the first notification is sent
\* by a call nobody awaits.
StartupRun ==
    /\ proc = "boot"
    /\ RequiredEnvPresent
    /\ proc' = "running"
    /\ timer' = TRUE
    /\ disp' = [disp EXCEPT ![0] = sendNotification(StartMsg)]
    /\ UNCHANGED <<env, exitCode, lastStatus, fired, cyc, unhandled, alerted, scen, fresh>>

\* The promise of the top-level call settles; a rejection has no handler.
StartupSettled(smsOk) ==
    /\ proc = "running"
    /\ SendState(disp[0]) \in {"resolved", "rejected"}
    /\ unhandled' = (\/ unhandled
                     \/ Abandon(disp[0], smsOk)
                     \/ SendState(disp[0]) = "rejected")
    /\ disp' = [disp EXCEPT ![0] = NoDisp]
    /\ UNCHANGED <<env, proc, exitCode, timer, lastStatus, fired, cyc, alerted, scen, fresh>>

\* ------------------------------------------------------- the probe cycle
\* A step of the invocation in slot c with result r: the dispatch it was
\* awaiting is behind it, and the dispatch r asks for is started.
Apply(c, r, s, smsOk) ==
    /\ cyc' = [cyc EXCEPT ![c] = r.c]
    /\ lastStatus' = r.last
    /\ unhandled' = (unhandled \/ Abandon(disp[c], smsOk))
    /\ disp' = [disp EXCEPT ![c] = IF r.send # NoMsg
                                   THEN sendNotification(r.send) ELSE NoDisp]
    /\ scen' = ScenStep(s, r)
    /\ alerted' = IF r.send # NoMsg THEN LastTwo(alerted, r.c.pend) ELSE alerted
    /\ fresh' = FreshStep(fresh, r, lastStatus)
    /\ UNCHANGED <<env, proc, exitCode, timer, fired>>

FreeSlots == {c \in Slots : ~InFlight(c)}

\* setInterval calls checkWebsite(), whatever the earlier calls are doing;
\* the call runs to its first await, the http.get of line 70.
TimerFire ==
    /\ proc = "running"
    /\ timer
    /\ fired < MaxCycles
    /\ FreeSlots # {}
    /\ LET c == CHOOSE x \in FreeSlots : \A y \in FreeSlots : x <= y
       IN cyc' = [cyc EXCEPT ![c] = [IdleCyc EXCEPT !.pc = "get",
                                                   !.start = lastStatus]]
    /\ fired' = fired + 1
    /\ scen' = IF \E c \in Slots : InFlight(c) THEN ScenOff ELSE scen
    /\ UNCHANGED <<env, proc, exitCode, timer, lastStatus, disp, unhandled,
                   alerted, fresh>>

\* The same, when the interval is longer than whatever was started at the
\* previous tick takes: no check is running and the startup call has settled.
TimerFireSeq ==
    /\ \A c \in Slots : ~InFlight(c)
    /\ ~disp[0].on
    /\ TimerFire

\* http.get settles with a received response.
GetResponds(c, status) ==
    /\ proc = "running"
    /\ cyc[c].pc = "get"
    /\ LET cy == [cyc[c] EXCEPT !.out = <<status>>, !.answered = TRUE]
       IN IF validateStatus(status)
          THEN Apply(c, TryBody(cy, status, lastStatus), ScenProbe(scen, status), TRUE)
          ELSE Apply(c, CatchBody(cy, StatusError(status), lastStatus),
                     ScenProbe(scen, status), TRUE)

\* http.get settles with no response: timeout, refused, DNS, TLS.
GetThrows(c) ==
    /\ proc = "running"
    /\ cyc[c].pc = "get"
    /\ LET cy == [cyc[c] EXCEPT !.out = <<0>>]
       IN Apply(c, CatchBody(cy, TransportError, lastStatus), ScenProbe(scen, 0), TRUE)

\* The awaited sendNotification resolved.
NotifyReturns(c, smsOk) ==
    /\ proc = "running"
    /\ cyc[c].pc \in {"notify", "notifyErr"}
    /\ SendState(disp[c]) = "resolved"
    /\ Apply(c, AfterNotify(cyc[c]), scen, smsOk)

\* The sendNotification awaited inside the try block rejected.
NotifyThrows(c, smsOk) ==
    /\ proc = "running"
    /\ cyc[c].pc = "notify"
    /\ SendState(disp[c]) = "rejected"
    /\ Apply(c, CatchBody(cyc[c], TypeError, lastStatus), scen, smsOk)

\* The sendNotification awaited inside the catch block rejected: the
\* promise of checkWebsite rejects, and setInterval drops it.
NotifyErrThrows(c, smsOk) ==
    /\ proc = "running"
    /\ cyc[c].pc = "notifyErr"
    /\ SendState(disp[c]) = "rejected"
    /\ cyc' = [cyc EXCEPT ![c].pc = "rejected", ![c].pend = 0]
    /\ disp' = [disp EXCEPT ![c] = NoDisp]
    /\ unhandled' = TRUE
    /\ scen' = IF ScenLive(scen) THEN ScenOff ELSE scen
    /\ UNCHANGED <<env, proc, exitCode, timer, lastStatus, fired, alerted, fresh>>

\* ------------------------------------------------------ backend requests
TgOutcomes == {"ok", "errResp", "errNoResp"}

TgPostSettles(o, i, outcome) ==
    /\ proc = "running"
    /\ disp[o].on
    /\ i \in 1..Len(disp[o].tg.posts)
    /\ disp[o].tg.posts[i] = "pending"
    /\ disp' = [disp EXCEPT ![o].tg = TgSettle(@, i, outcome)]
    /\ UNCHANGED <<env, proc, exitCode, timer, lastStatus, fired, cyc,
                   unhandled, alerted, scen, fresh>>

\* The same with a catch block that also records the failure in the status
\* cell of the monitor.
SlackSettlesMarksDown(o, ok) ==
    /\ proc = "running"
    /\ disp[o].slack.post = "pending"
    /\ disp' = [disp EXCEPT ![o].slack.post = IF ok THEN "ok" ELSE "failed"]
    /\ lastStatus' = IF ok THEN lastStatus ELSE DOWN
    /\ UNCHANGED <<env, proc, exitCode, timer, fired, cyc,
                   unhandled, alerted, scen, fresh>>

\* Lines 162-167: either outcome is logged and the function resolves.
SlackSettles(o, ok) ==
    /\ proc = "running"
    /\ disp[o].slack.post = "pending"
    /\ disp' = [disp EXCEPT ![o].slack.post = IF ok THEN "ok" ELSE "failed"]
    /\ UNCHANGED <<env, proc, exitCode, timer, lastStatus, fired, cyc,
                   unhandled, alerted, scen, fresh>>

\* Lines 139-153: the promise of the post has no handler.
SmsSettles(o, ok) ==
    /\ proc = "running"
    /\ disp[o].sms.post = "pending"
    /\ disp' = [disp EXCEPT ![o].sms.post = IF ok THEN "ok" ELSE "failed"]
    /\ unhandled' = (unhandled \/ ~ok)
    /\ UNCHANGED <<env, proc, exitCode, timer, lastStatus, fired, cyc, alerted, scen, fresh>>

\* A rejection without a handler ends the process on the runtimes that
\* raise it as an uncaught exception, and is only reported on the others.
Crash ==
    /\ proc = "running"
    /\ unhandled
    /\ proc' = "crashed"
    /\ exitCode' = 1
    /\ UNCHANGED <<env, timer, lastStatus, fired, cyc, disp, unhandled, alerted, scen, fresh>>

Backends ==
    \/ \E o \in Owners, i \in 1..MaxChats, x \in TgOutcomes : TgPostSettles(o, i, x)
    \/ \E o \in Owners, ok \in BOOLEAN : SlackSettles(o, ok)
    \/ \E o \in Owners, ok \in BOOLEAN : SmsSettles(o, ok)

Cycle ==
    \/ \E c \in Slots, s \in Codes : GetResponds(c, s)
    \/ \E c \in Slots : GetThrows(c)
    \/ \E c \in Slots, ok \in BOOLEAN : NotifyReturns(c, ok)
    \/ \E c \in Slots, ok \in BOOLEAN : NotifyThrows(c, ok)
    \/ \E c \in Slots, ok \in BOOLEAN : NotifyErrThrows(c, ok)

Next ==
    \/ StartupExit
    \/ StartupRun
    \/ \E ok \in BOOLEAN : StartupSettled(ok)
    \/ TimerFire
    \/ Cycle
    \/ Backends
    \/ Crash

Spec == Init /\ [][Next]_vars

\* Checks that never overlap: the timer fires only when no check is running.
NextSeq ==
    \/ StartupExit
    \/ StartupRun
    \/ \E ok \in BOOLEAN : StartupSettled(ok)
    \/ TimerFireSeq
    \/ Cycle
    \/ Backends
    \/ Crash

SpecSeq == Init /\ [][NextSeq]_vars

\* Checks that overlap: the timer fires whatever the earlier checks are
\* doing, as setInterval does, for a burst of as many ticks as there are
\* slots, so that a tick never waits for a slot. The backends answer, or fail
\* with an answer, so that no dispatch rejects and nothing is left unhandled:
\* what goes wrong in these runs is the overlap's doing.
TimerFireOv ==
    /\ fired < MaxInFlight
    /\ ~disp[0].on
    /\ TimerFire

CycleOv ==
    \/ \E c \in Slots, s \in Codes : GetResponds(c, s)
    \/ \E c \in Slots : GetThrows(c)
    \/ \E c \in Slots : NotifyReturns(c, TRUE)

BackendsOv ==
    \/ \E o \in Owners, i \in 1..MaxChats, x \in {"ok", "errResp"} :
           TgPostSettles(o, i, x)
    \/ \E o \in Owners, ok \in BOOLEAN : SlackSettles(o, ok)
    \/ \E o \in Owners : SmsSettles(o, TRUE)

NextOv ==
    \/ StartupExit
    \/ StartupRun
    \/ StartupSettled(TRUE)
    \/ TimerFireOv
    \/ CycleOv
    \/ BackendsOv

SpecOv == Init /\ [][NextOv]_vars

\* ================================================================ claims
Finished(c) == cyc[c].pc \in {"done", "rejected"}
Awaiting(c) == cyc[c].pc \in {"notify", "notifyErr"}
\* The status an answer stands for: the received code, or DOWN when the
\* request got no answer.
StatusOf(answer) == IF answer = 0 THEN DOWN ELSE answer
\* The message the transition table gives for a new status.
KindOf(status) ==
    IF status = 200 THEN "online" ELSE IF status = DOWN THEN "error" ELSE "down"

\* C1: with cycles that do not overlap, a cycle that has returned dispatched
\* exactly one alert if the status it assigned differs from lastStatus at its
\* start, and none otherwise.
C1_AlertIffStatusChanged ==
    \A c \in Slots :
        cyc[c].pc = "done" =>
            cyc[c].sends = IF cyc[c].cls # <<cyc[c].start>> THEN 1 ELSE 0

\* C2: a cycle never makes more than MAX_RETRIES + 1 requests; a cycle all of
\* whose requests ended in a transport error has, once over, made exactly
\* MAX_RETRIES + 1 of them and set lastStatus to DOWN; and DOWN is assigned
\* only after MAX_RETRIES + 1 requests have ended in a transport error.
C2_RetryBound ==
    \A c \in Slots :
        /\ cyc[c].retries <= MAX_RETRIES
        /\ (Finished(c) /\ ~cyc[c].answered) =>
               /\ cyc[c].retries + 1 = MAX_RETRIES + 1
               /\ cyc[c].cls = <<DOWN>>
        /\ cyc[c].cls = <<DOWN>> =>
               /\ ~cyc[c].answered
               /\ cyc[c].retries + 1 = MAX_RETRIES + 1

\* C3: once the latest request of a cycle has been answered with a status
\* other than 200, the cycle neither issues another request nor treats the
\* target as unreachable: it is awaiting the alert for that status or has
\* assigned it; when the request was the first of the cycle it stays the only.
C3_NoRetryOnResponse ==
    \A c \in Slots :
        (cyc[c].out # <<>> /\ cyc[c].out[1] \notin {0, 200}) =>
            \/ cyc[c].pc = "notify" /\ cyc[c].pend = cyc[c].out[1]
            \/ cyc[c].pc = "done" /\ cyc[c].cls = cyc[c].out

\* C4: the promise returned by sendNotification never rejects.
C4_DispatchNeverRejects ==
    \A o \in Owners : SendState(disp[o]) # "rejected"

\* C5: after each of the consecutive cycles answered 500, 503, 500 from the
\* start of the run, as many alerts have been dispatched as cycles have
\* returned, and lastStatus is the code of the last of them.
C5_FlapAlerts ==
    (scen.on /\ scen.n >= 1 /\ \A c \in Slots : ~InFlight(c)) =>
        /\ scen.alerts = scen.n
        /\ lastStatus = FlapCodes[scen.n]

C7_StatusAndAlertKind ==
    \A c \in Slots :
        /\ Awaiting(c) =>
               /\ cyc[c].pend = StatusOf(cyc[c].out[1])
               /\ disp[c].msg.kind = KindOf(cyc[c].pend)
               /\ disp[c].msg.kind = "down" => disp[c].msg.code = cyc[c].pend
        /\ cyc[c].pc = "done" =>
               /\ cyc[c].cls = <<StatusOf(cyc[c].out[1])>>
               /\ lastStatus = cyc[c].cls[1]

\* C8: no promise rejects without a handler, no invocation of checkWebsite
\* rejects, and the process never ends on an uncaught rejection.
C8_NothingEscapes ==
    /\ ~unhandled
    /\ proc # "crashed"
    /\ \A c \in Slots : cyc[c].pc # "rejected"

\* C9: when a required variable is missing the process does nothing but exit,
\* with a status other than zero: the timer is never installed, no request is
\* made and sendNotification is never called.
C9_StartupGate ==
    (~env.token \/ env.chats = 0 \/ ~env.url \/ ~env.webhook) =>
        /\ proc \in {"boot", "exited"}
        /\ proc = "boot" => (ENABLED StartupExit /\ ~ENABLED StartupRun)
        /\ proc = "exited" => exitCode # 0
        /\ ~timer
        /\ fired = 0
        /\ \A c \in Slots : cyc[c] = IdleCyc
        /\ \A o \in Owners : ~disp[o].on
        /\ alerted = <<>>

\* C9 witness: the webhook URL alone is missing and the process has exited.
C9_Witness ==
    /\ env.token /\ env.chats # 0 /\ env.url /\ ~env.webhook
    /\ proc = "exited"
    /\ exitCode = 1

\* C10: while a cycle awaits the dispatch of its alert, lastStatus already
\* holds the status alerted; and no two alerts in a row are for one status.
C10_AssignBeforeAwait ==
    /\ \A c \in Slots : Awaiting(c) => lastStatus = cyc[c].pend
    /\ Len(alerted) = 2 => alerted[1] # alerted[2]

\* C11: an exception raised while a cycle dispatches a notification causes no
\* further request of that cycle and no second call of sendNotification: a
\* cycle has called sendNotification at most once, and a cycle that has called
\* it has no request outstanding.
C11_DispatchErrorNotRetried ==
    \A c \in Slots :
        /\ cyc[c].sends <= 1
        /\ cyc[c].sends >= 1 => cyc[c].pc # "get"

\* C12: when two cycles overlap, no cycle decides, by reading lastStatus,
\* while another cycle is awaiting the alert after which it will overwrite
\* lastStatus; and two cycles that started from one lastStatus never both
\* await the alert for one new status.
C12_OverlapKeepsAlertRule ==
    [][\A c \in Slots : \A d \in Slots \ {c} :
          /\ (cyc[c].pc = "get" /\ cyc'[c].pc \in {"notify", "notifyErr", "done"})
                 => ~(Awaiting(d) /\ cyc[d].pend # lastStatus)
          /\ ~(/\ cyc'[c].pc \in {"notify", "notifyErr"}
               /\ cyc'[d].pc \in {"notify", "notifyErr"}
               /\ cyc'[c].pend = cyc'[d].pend
               /\ cyc'[c].start = cyc'[d].start)]_vars

\* C13: lastStatus takes a failure status only when an alert for that status
\* has been dispatched since lastStatus last changed, so that it holds 200 or
\* a failure status alerted while lastStatus held the value before it.
C13_FailureStatusWasAlerted ==
    [][(lastStatus' # lastStatus /\ lastStatus' # 200) => lastStatus' \in fresh]_vars

\* C14: at most one invocation of checkWebsite is in flight at any time.
C14_OneCycleInFlight ==
    Cardinality({c \in Slots : InFlight(c)}) <= 1

\* A request of dispatch d that has not settled yet.
Outstanding(d) ==
    \/ \E i \in 1..Len(d.tg.posts) : d.tg.posts[i] = "pending"
    \/ d.slack.post = "pending"
    \/ d.sms.post = "pending"

\* C15: once the promise of sendNotification has settled, no Telegram, Slack
\* or SMS request of that dispatch is outstanding.
C15_SettledMeansAllFinished ==
    \A o \in Owners :
        SendState(disp[o]) \in {"resolved", "rejected"} => ~Outstanding(disp[o])

\* C16: sendTelegramMessage has issued one post per recipient, whatever became
\* of the others, and a failed post never makes it throw: the failure is
\* caught and logged inside it.
C16_TelegramPostsAllAndCatches ==
    \A o \in Owners :
        disp[o].on =>
            /\ Len(disp[o].tg.posts) = env.chats
            /\ \A i \in 1..env.chats : disp[o].tg.posts[i] # "idle"
            /\ disp[o].tg.fn # "threw"

\* C17: a cycle in flight can always go on, by a step of its own or by a
\* request settling, and a cycle that is over has assigned lastStatus the
\* status it classified.
C17_CycleCompletesAndAssigns ==
    \A c \in Slots :
        /\ InFlight(c) => ENABLED (Cycle \/ Backends)
        /\ Finished(c) => cyc[c].cls # <<>>

\* C18: while a request of a cycle is outstanding the cycle has dispatched no
\* alert and lastStatus is what it was when the cycle started; and a request
\* after the first is outstanding only when the one before it failed.
C18_RetriesSequentialAndSilent ==
    \A c \in Slots :
        cyc[c].pc = "get" =>
            /\ cyc[c].sends = 0
            /\ lastStatus = cyc[c].start
            /\ cyc[c].retries > 0 =>
                   /\ cyc[c].out # <<>>
                   /\ ~validateStatus(cyc[c].out[1])

\* C19: lastStatus changes only in the step in which an invocation of
\* checkWebsite returns, and to the status that invocation classified: no
\* step of sendNotification or of a backend changes it. The 'starting
\* monitoring' notification is dispatched in the one step that leaves the
\* boot, by the top-level call only, with lastStatus at 200.
C19_LastStatusFrame ==
    [][/\ lastStatus' # lastStatus =>
              \E c \in Slots : /\ InFlight(c)
                               /\ cyc'[c].pc = "done"
                               /\ cyc'[c].cls = <<lastStatus'>>
       /\ \A o \in Owners :
              (disp'[o].msg = StartMsg /\ disp[o].msg # StartMsg) =>
                  /\ o = 0
                  /\ proc = "boot"
                  /\ lastStatus' = 200
       /\ (proc = "boot" /\ proc' = "running") => disp'[0].msg = StartMsg
       /\ proc # "boot" => proc' # "boot"]_vars

\* A cycle is awaiting an alert whose Telegram and Slack posts have failed,
\* and lastStatus is still what it was when the cycle started.
C19_Witness ==
    \E c \in Slots :
        /\ Awaiting(c)
        /\ disp[c].tg.fn \in {"caught", "threw"}
        /\ disp[c].slack.post = "failed"
        /\ disp[c].sms.post = "failed"
        /\ lastStatus = cyc[c].start
        /\ ~disp[0].on

====
